---- MODULE Spec2Model ----
(***************************************************************************)
(* State-machine model of the DVD LPCM decoder element                     *)
(* (gst/dvdlpcmdec/gstdvdlpcmdec.c).                                       *)
(*                                                                         *)
(* The element owns one decoder record (rate, channels, width, out_width,  *)
(* dynamic_range, emphasis, mute, timestamp, header), a source pad with    *)
(* the caps last set on it, and a sink pad whose chain function is chosen  *)
(* by gst_dvdlpcmdec_setcaps.  Every handler (setcaps, chain_dvd,          *)
(* chain_raw, the READY->PAUSED reset) is one atomic action; the calls a   *)
(* handler makes on its pads are logged, in order, in last.trace.          *)
(*                                                                         *)
(* Buffers are modelled by their size and timestamp; byte contents do not  *)
(* influence the control flow of any handler.                              *)
(***************************************************************************)
EXTENDS Integers, Sequences, FiniteSets, TLC

VARIABLES
  dec,        \* the GstDvdLpcmDec fields
  srccaps,    \* GST_PAD_CAPS (srcpad): NoCaps or [rate, channels, width]
  chainfn,    \* chain function installed on the sink pad: "none", "raw", "dvd"
  ub,         \* TRUE once a handler has run into undefined behaviour
  negfailed,  \* history: a chain_dvd renegotiation was rejected since the last reset
  prevhdr,    \* history: the header word of the chunk chain_dvd handled just before
  emitted,    \* history: the timestamp of the buffer pushed last since the reset (NONE: none)
  emitend,    \* history: timestamp plus duration of that buffer (NONE: none)
  inp,        \* the argument of a function run on its own: a header word or buffer data
  out,        \* the data that function produced
  last        \* history: the handler call that has just returned ("idle": none)

vars == <<dec, srccaps, chainfn, ub, negfailed, prevhdr, emitted, emitend, inp, out, last>>

-----------------------------------------------------------------------------
(* Bounds of the model *)

\* chunk sizes run from MinSize, one byte short of the 5-byte header, up to
\* MaxSize bytes
MinSize == 4
MaxSize == 8
\* first_access values run over 0..MaxFirstAccess
MaxFirstAccess == 6
\* handlers taking data are only fed while the cursor is at most MaxCursor ns
MaxCursor == 20833
\* 16-bit buffers converted on their own hold up to MaxBytes16 bytes
MaxBytes16 == 4
\* 20-bit buffers of every length in 0..MaxBytes20
MaxBytes20 == 21

(* Program constants *)

\* GST_CLOCK_TIME_NONE, the "no timestamp" marking
NONE == -1
\* nanoseconds per second, the unit of GstClockTime
GST_SECOND == 1000000000
\* size of the DVD private-stream header skipped by chain_dvd
HeaderLen == 5

NoCaps == [rate |-> 0, channels |-> 0, width |-> 0]

\* header words fed in DVD mode: 16-bit/48k/1ch (the all-zero word),
\* 20-bit/48k/1ch, 24-bit/96k/2ch with mute set
Headers == {0, 16384, 4231424}

ChunkSizes == MinSize..MaxSize
FirstAccess == 0..MaxFirstAccess
\* buffer timestamps offered by upstream
Timestamps == {NONE, 1000}

\* what the pads answer during one chain_raw call:
\* GST_PAD_IS_USABLE, gst_pad_alloc_buffer, gst_pad_push
Envs ==
  { [usable |-> TRUE,  alloc |-> "OK",    push |-> "OK"],
    [usable |-> FALSE, alloc |-> "OK",    push |-> "OK"],
    [usable |-> TRUE,  alloc |-> "ERROR", push |-> "OK"],
    [usable |-> TRUE,  alloc |-> "OK",    push |-> "ERROR"] }

-----------------------------------------------------------------------------
(* gst_dvdlpcm_reset *)

ResetDec ==
  [rate |-> 0, channels |-> 0, width |-> 0, out_width |-> 0,
   dynamic_range |-> 0, emphasis |-> FALSE, mute |-> FALSE,
   timestamp |-> 0, header |-> 0]

(* parse_header: the fields are cut out of the 24-bit word *)

HeaderWidth(header) ==
  LET sel == (header \div 16384) % 4
  IN  IF sel = 2 THEN 24 ELSE IF sel = 1 THEN 20 ELSE 16

HeaderOutWidth(header) ==
  LET sel == (header \div 16384) % 4
  IN  IF sel = 2 THEN 24 ELSE IF sel = 1 THEN 24 ELSE 16

\* HeaderRate without the 96 kHz case
HeaderRate_Always48000(header) == 48000

HeaderRate(header) ==
  IF (header \div 4096) % 2 = 1 THEN 96000 ELSE 48000

\* HeaderChannels without the "+ 1"
HeaderChannels_NoPlusOne(header) == (header \div 256) % 8

HeaderChannels(header) == ((header \div 256) % 8) + 1

parse_header(d, header) ==
  [d EXCEPT !.dynamic_range = header % 256,
            !.mute = ((header \div 4194304) % 2 = 1),
            !.emphasis = ((header \div 8388608) % 2 = 1),
            !.width = HeaderWidth(header),
            !.out_width = HeaderOutWidth(header),
            !.rate = HeaderRate(header),
            !.channels = HeaderChannels(header)]

\* the caps built from the decoder fields (gst_caps_new_simple)
SrcCapsOf(d) == [rate |-> d.rate, channels |-> d.channels, width |-> d.out_width]

-----------------------------------------------------------------------------
(* update_timestamps *)

\* samples * GST_SECOND / rate in 64-bit integer arithmetic; the product is
\* split so that no intermediate value leaves the checker's integer range
BufferDuration(samples, rate) ==
  samples * (GST_SECOND \div rate) + ((samples * (GST_SECOND % rate)) \div rate)

\* update_timestamps with the cursor moved back by the duration
update_timestamps_Back(d, bufts, samples) ==
  LET duration == BufferDuration(samples, d.rate)
  IN  IF bufts # NONE
      THEN [dec |-> [d EXCEPT !.timestamp = bufts],
            ts |-> bufts, duration |-> duration]
      ELSE [dec |-> [d EXCEPT !.timestamp = d.timestamp - duration],
            ts |-> d.timestamp - duration, duration |-> duration]

\* returns the decoder with the moved cursor, and the timestamp and duration
\* stamped on the buffer
update_timestamps(d, bufts, samples) ==
  LET duration == BufferDuration(samples, d.rate)
  IN  IF bufts # NONE
      THEN [dec |-> [d EXCEPT !.timestamp = bufts],
            ts |-> bufts, duration |-> duration]
      ELSE [dec |-> [d EXCEPT !.timestamp = d.timestamp + duration],
            ts |-> d.timestamp + duration, duration |-> duration]

-----------------------------------------------------------------------------
(* gst_dvdlpcmdec_chain_raw *)

\* A call in progress: the decoder, the source pad caps, the pad calls made
\* so far, the flow return, and whether undefined behaviour was hit.
Begin(d, caps) ==
  [dec |-> d, caps |-> caps, trace |-> <<>>, ret |-> "OK", ub |-> FALSE]

\* the value of the function-scope variable `samples` handed to
\* update_timestamps; the 20-bit case computes its count in a block-local
\* variable of the same name, so the function-scope one keeps its initial 0
RawSamples(d, size) ==
  IF d.width = 16 THEN (size \div d.channels) \div 2
  ELSE IF d.width = 24 THEN (size \div d.channels) \div 3
  ELSE 0

\* size in bytes of the buffer pushed downstream
RawOutSize(d, size) ==
  IF d.width = 20 THEN ((size * 8) \div 20) * 3 ELSE size

\* byte i (counted from 0, as in the code) of the k-th group of n bytes
GroupByte(src, n, k, i) == src[n * k + i + 1]

\* Group20 with the second shared byte split like the first one
Group20_HighNibble(src, k) ==
  << GroupByte(src, 10, k, 0), GroupByte(src, 10, k, 1),
     (GroupByte(src, 10, k, 8) \div 16) * 16,
     GroupByte(src, 10, k, 2), GroupByte(src, 10, k, 3),
     (GroupByte(src, 10, k, 8) % 16) * 16,
     GroupByte(src, 10, k, 4), GroupByte(src, 10, k, 5),
     (GroupByte(src, 10, k, 9) \div 16) * 16,
     GroupByte(src, 10, k, 6), GroupByte(src, 10, k, 7),
     (GroupByte(src, 10, k, 9) % 16) * 16 >>

\* one pass of the 20-bit loop: dest[0..11] from src[0..9];
\* x & 0xf0 is (x / 16) * 16, x & 0x0f is x % 16, (x & 0x0f) << 4 is
\* (x % 16) * 16
Group20(src, k) ==
  << GroupByte(src, 10, k, 0), GroupByte(src, 10, k, 1),
     (GroupByte(src, 10, k, 8) \div 16) * 16,
     GroupByte(src, 10, k, 2), GroupByte(src, 10, k, 3),
     (GroupByte(src, 10, k, 8) % 16) * 16,
     GroupByte(src, 10, k, 4), GroupByte(src, 10, k, 5),
     GroupByte(src, 10, k, 9) % 16,
     GroupByte(src, 10, k, 6), GroupByte(src, 10, k, 7),
     (GroupByte(src, 10, k, 9) % 16) * 16 >>

RECURSIVE Groups20(_, _)
\* the bytes written by the first count passes of the 20-bit loop
Groups20(src, count) ==
  IF count = 0 THEN <<>> ELSE Groups20(src, count - 1) \o Group20(src, count - 1)

\* the 20-bit case: a new buffer of (size * 8 / 20) * 3 bytes, of which the
\* loop writes 12 per complete 10-byte group; the bytes after them are not
\* written and hold whatever the allocated memory held (junk)
Convert20(data, junk) ==
  LET size == Len(data)
      outsize == ((size * 8) \div 20) * 3
      count == size \div 10
  IN  Groups20(data, count) \o [i \in 1..(outsize - 12 * count) |-> junk]

\* temp[0..8] as filled from the k-th group before anything is written
Temp24(src, k) ==
  << GroupByte(src, 12, k, 8), GroupByte(src, 12, k, 2), GroupByte(src, 12, k, 3),
     GroupByte(src, 12, k, 9), GroupByte(src, 12, k, 4), GroupByte(src, 12, k, 5),
     GroupByte(src, 12, k, 10), GroupByte(src, 12, k, 6), GroupByte(src, 12, k, 7) >>

\* the positions 2..10 of a group, in the order the loop body names them
Slots24 == <<8, 2, 3, 9, 4, 5, 10, 6, 7>>

RECURSIVE Assign24(_, _)
\* the group g after the first n assignments g[2 + j] = g[Slots24[j + 1]],
\* j = 0..n-1, each reading the group as the earlier ones left it
Assign24(g, n) ==
  IF n = 0 THEN g
  ELSE LET h == Assign24(g, n - 1)
       IN  [h EXCEPT ![n + 2] = h[Slots24[n] + 1]]

\* Group24 writing into the group directly, without temp
Group24_NoTemp(src, k) ==
  Assign24([i \in 1..12 |-> GroupByte(src, 12, k, i - 1)], 9)

\* Group24 with temp filled but never copied back
Group24_NoCopyBack(src, k) ==
  [i \in 1..12 |-> GroupByte(src, 12, k, i - 1)]

\* one pass of the 24-bit loop: temp is filled from the group, then
\* memcpy (src + 2, temp, 9) replaces bytes 2..10
Group24(src, k) ==
  [i \in 1..12 |-> IF i \in 3..11 THEN Temp24(src, k)[i - 2]
                   ELSE GroupByte(src, 12, k, i - 1)]

RECURSIVE Groups24(_, _)
Groups24(src, count) ==
  IF count = 0 THEN <<>> ELSE Groups24(src, count - 1) \o Group24(src, count - 1)

\* the 24-bit case: complete 12-byte groups are rearranged in place, the
\* bytes after them stay
Convert24(data) ==
  LET size == Len(data)
      count == size \div 12
  IN  Groups24(data, count) \o SubSeq(data, 12 * count + 1, size)

\* ConvertData swapping the two bytes of every 16-bit sample
ConvertData_Swap16(width, data, junk) ==
  IF width = 16
  THEN [i \in 1..Len(data) |->
          IF i % 2 = 1 THEN (IF i < Len(data) THEN data[i + 1] ELSE data[i])
          ELSE data[i - 1]]
  ELSE IF width = 20 THEN Convert20(data, junk)
  ELSE Convert24(data)

\* the data of the buffer chain_raw pushes for input data of the given width
ConvertData(width, data, junk) ==
  IF width = 16 THEN data
  ELSE IF width = 20 THEN Convert20(data, junk)
  ELSE Convert24(data)

\* the success path: stamp the buffer, move the cursor, push
RawPush(m, size, ts, e) ==
  LET d == m.dec
      u == update_timestamps(d, ts, RawSamples(d, size))
  IN  [m EXCEPT !.dec = u.dec,
                !.ret = e.push,
                !.trace = Append(@,
                  [ev |-> "push", size |-> RawOutSize(d, size), ts |-> u.ts,
                   duration |-> u.duration, caps |-> m.caps,
                   fmt |-> SrcCapsOf(d), width |-> d.width,
                   insize |-> size, ints |-> ts,
                   before |-> d.timestamp, after |-> u.dec.timestamp,
                   ret |-> e.push])]

\* GST_ELEMENT_ERROR: the error message posted on the bus
ElementError(domain, code) == [ev |-> "error", domain |-> domain, code |-> code]

\* GST_PAD_IS_USABLE (srcpad), as answered by e
AskUsable(m, e) == [m EXCEPT !.trace = Append(@, [ev |-> "is_usable", ok |-> e.usable])]

\* gst_pad_alloc_buffer (srcpad, ...), as answered by e
AskAlloc(m, e) == [m EXCEPT !.trace = Append(@, [ev |-> "alloc", ret |-> e.alloc])]

\* chain_raw pushing the converted buffer before it finds the pad disabled
chain_raw_PushWhenDisabled(m, size, ts, e) ==
  LET d == m.dec
      m0 == AskUsable(m, e)
      m1 == AskAlloc(m0, e)
  IN  IF d.rate = 0
      THEN [m EXCEPT !.ret = "NOT_NEGOTIATED",
                     !.trace = Append(@, ElementError("STREAM", "FORMAT"))]
      ELSE IF ~e.usable /\ d.width \in {16, 24} /\ d.channels # 0
           THEN [RawPush(m0, size, ts, e) EXCEPT !.ret = "NOT_LINKED"]
      ELSE IF ~e.usable THEN [m0 EXCEPT !.ret = "NOT_LINKED"]
      ELSE IF d.width = 20 /\ e.alloc # "OK"
           THEN [m1 EXCEPT !.ret = e.alloc,
                           !.trace = Append(@, ElementError("RESOURCE", "FAILED"))]
      ELSE IF d.width \in {16, 20, 24} /\ d.channels = 0
           THEN [(IF d.width = 20 THEN m1 ELSE m0) EXCEPT !.ret = "UB", !.ub = TRUE]
      ELSE IF d.width = 20 THEN RawPush(m1, size, ts, e)
      ELSE IF d.width \in {16, 24} THEN RawPush(m0, size, ts, e)
      ELSE [m0 EXCEPT !.ret = "NOT_NEGOTIATED",
                      !.trace = Append(@, ElementError("STREAM", "WRONG_TYPE"))]

\* chain_raw with the width looked at before the pad
chain_raw_WidthFirst(m, size, ts, e) ==
  LET d == m.dec
      m0 == AskUsable(m, e)
      m1 == AskAlloc(m0, e)
  IN  IF d.rate = 0
      THEN [m EXCEPT !.ret = "NOT_NEGOTIATED",
                     !.trace = Append(@, ElementError("STREAM", "FORMAT"))]
      ELSE IF d.width \notin {16, 20, 24}
           THEN [m0 EXCEPT !.ret = "NOT_NEGOTIATED",
                           !.trace = Append(@, ElementError("STREAM", "WRONG_TYPE"))]
      ELSE IF ~e.usable THEN [m0 EXCEPT !.ret = "NOT_LINKED"]
      ELSE IF d.width = 20 /\ e.alloc # "OK"
           THEN [m1 EXCEPT !.ret = e.alloc,
                           !.trace = Append(@, ElementError("RESOURCE", "FAILED"))]
      ELSE IF d.width \in {16, 20, 24} /\ d.channels = 0
           THEN [(IF d.width = 20 THEN m1 ELSE m0) EXCEPT !.ret = "UB", !.ub = TRUE]
      ELSE IF d.width = 20 THEN RawPush(m1, size, ts, e)
      ELSE IF d.width \in {16, 24} THEN RawPush(m0, size, ts, e)
      ELSE [m0 EXCEPT !.ret = "NOT_NEGOTIATED",
                      !.trace = Append(@, ElementError("STREAM", "WRONG_TYPE"))]

\* chain_raw going on after a failed gst_pad_alloc_buffer
chain_raw_AllocIgnored(m, size, ts, e) ==
  LET d == m.dec
      m0 == AskUsable(m, e)
      m1 == AskAlloc(m0, e)
  IN  IF d.rate = 0
      THEN [m EXCEPT !.ret = "NOT_NEGOTIATED",
                     !.trace = Append(@, ElementError("STREAM", "FORMAT"))]
      ELSE IF ~e.usable THEN [m0 EXCEPT !.ret = "NOT_LINKED"]
      ELSE IF d.width \in {16, 20, 24} /\ d.channels = 0
           THEN [(IF d.width = 20 THEN m1 ELSE m0) EXCEPT !.ret = "UB", !.ub = TRUE]
      ELSE IF d.width = 20 THEN RawPush(m1, size, ts, e)
      ELSE IF d.width \in {16, 24} THEN RawPush(m0, size, ts, e)
      ELSE [m0 EXCEPT !.ret = "NOT_NEGOTIATED",
                      !.trace = Append(@, ElementError("STREAM", "WRONG_TYPE"))]

\* the checks are made in the order of the code: rate, pad, width; the
\* divisions by channels in the three cases are undefined for channels = 0
chain_raw(m, size, ts, e) ==
  LET d == m.dec
      m0 == AskUsable(m, e)
      m1 == AskAlloc(m0, e)
  IN  IF d.rate = 0
      THEN [m EXCEPT !.ret = "NOT_NEGOTIATED",
                     !.trace = Append(@, ElementError("STREAM", "FORMAT"))]
      ELSE IF ~e.usable THEN [m0 EXCEPT !.ret = "NOT_LINKED"]
      ELSE IF d.width = 20 /\ e.alloc # "OK"
           THEN [m1 EXCEPT !.ret = e.alloc,
                           !.trace = Append(@, ElementError("RESOURCE", "FAILED"))]
      ELSE IF d.width \in {16, 20, 24} /\ d.channels = 0
           THEN [(IF d.width = 20 THEN m1 ELSE m0) EXCEPT !.ret = "UB", !.ub = TRUE]
      ELSE IF d.width = 20 THEN RawPush(m1, size, ts, e)
      ELSE IF d.width \in {16, 24} THEN RawPush(m0, size, ts, e)
      ELSE [m0 EXCEPT !.ret = "NOT_NEGOTIATED",
                      !.trace = Append(@, ElementError("STREAM", "WRONG_TYPE"))]

-----------------------------------------------------------------------------
(* gst_dvdlpcmdec_chain_dvd *)

\* HeaderStep with the failed set-caps call not ending the chunk
HeaderStep_NoFail(m, header, accept) ==
  IF header = m.dec.header THEN m
  ELSE LET d1 == parse_header(m.dec, header)
           c == SrcCapsOf(d1)
       IN  IF accept
           THEN [m EXCEPT !.dec = [d1 EXCEPT !.header = header],
                          !.caps = c,
                          !.trace = Append(@, [ev |-> "set_caps", caps |-> c, ok |-> TRUE])]
           ELSE [m EXCEPT !.dec = d1,
                          !.trace = Append(@, [ev |-> "set_caps", caps |-> c, ok |-> FALSE])]

\* "see if we have a new header": parse it, propose the caps on the source
\* pad, and store the header word only once the caps were taken
HeaderStep(m, header, accept) ==
  IF header = m.dec.header THEN m
  ELSE LET d1 == parse_header(m.dec, header)
           c == SrcCapsOf(d1)
       IN  IF accept
           THEN [m EXCEPT !.dec = [d1 EXCEPT !.header = header],
                          !.caps = c,
                          !.trace = Append(@, [ev |-> "set_caps", caps |-> c, ok |-> TRUE])]
           ELSE [m EXCEPT !.dec = d1,
                          !.ret = "ERROR",
                          !.trace = Append(@, [ev |-> "set_caps", caps |-> c, ok |-> FALSE])]

\* gst_buffer_create_sub (buf, off, len), the timestamp put on the
\* sub-buffer, and the call of chain_raw on it.  The code does not compare
\* off and len with the buffer size: a range that leaves the buffer is
\* undefined behaviour, which either stops the process (ubc = "crash") or
\* lets the call go on with memory that is not the chunk's (ubc = "go"; a
\* length that wrapped below zero cannot be processed any further).
Forward(m, size, off, len, ts, e, ubc) ==
  LET inside == len >= 0 /\ off + len <= size
      sub == [ev |-> "sub", off |-> off, len |-> len, ts |-> ts, inside |-> inside]
      m1 == [m EXCEPT !.trace = Append(@, sub)]
      r == chain_raw(m1, len, ts, e)
      done == [r EXCEPT !.trace = Append(@, [ev |-> "raw_ret", ret |-> r.ret])]
  IN  IF inside THEN done
      ELSE IF ubc = "crash" THEN [m EXCEPT !.ret = "UB", !.ub = TRUE]
      ELSE IF len < 0 THEN [m1 EXCEPT !.ret = "UB", !.ub = TRUE]
      ELSE done

\* TwoSubBuffers with the threshold two bytes early
TwoSubBuffers_Above2(first_access) == first_access > 2

\* the test that decides between two sub-buffers and a single one
TwoSubBuffers(first_access) == first_access > 4

\* the timestamp given to the single sub-buffer
SingleTimestamp(ts) == NONE

\* Split with the second sub-buffer starting where the first one started
Split_SecondAtHeader(m, c, e1, e2, ubc) ==
  IF TwoSubBuffers(c.first_access)
  THEN LET len == c.first_access - 4
           m1 == IF len > 0
                 THEN Forward(m, c.size, HeaderLen, len, NONE, e1, ubc)
                 ELSE m
       IN  IF m1.ret # "OK" THEN m1
           ELSE Forward(m1, c.size, HeaderLen, c.size - HeaderLen, c.ts, e2, ubc)
  ELSE Forward(m, c.size, HeaderLen, c.size - HeaderLen, SingleTimestamp(c.ts), e1, ubc)

\* the split of the chunk after its 5-byte header
Split(m, c, e1, e2, ubc) ==
  IF TwoSubBuffers(c.first_access)
  THEN LET len == c.first_access - 4
           m1 == IF len > 0
                 THEN Forward(m, c.size, HeaderLen, len, NONE, e1, ubc)
                 ELSE m
       IN  IF m1.ret # "OK" THEN m1
           ELSE Forward(m1, c.size, HeaderLen + len, c.size - (HeaderLen + len),
                        c.ts, e2, ubc)
  ELSE Forward(m, c.size, HeaderLen, c.size - HeaderLen, SingleTimestamp(c.ts), e1, ubc)

\* c = [first_access, header, size, ts]; a chunk shorter than its header
\* makes the read of data[0..4] leave the buffer
chain_dvd(m, c, accept, e1, e2, ubc) ==
  IF c.size < HeaderLen /\ ubc = "crash" THEN [m EXCEPT !.ret = "UB", !.ub = TRUE]
  ELSE LET m1 == HeaderStep(m, c.header, accept)
       IN  IF m1.ret # "OK" THEN m1 ELSE Split(m1, c, e1, e2, ubc)

-----------------------------------------------------------------------------
(* gst_dvdlpcmdec_setcaps *)

CapsFields == {"rate", "channels", "width", "dynamic_range", "emphasis", "mute"}

\* the audio/x-lpcm structures offered in raw mode: the values of the sink
\* pad template, with all fields present or with one of them missing
RawFormats ==
  { [rate |-> 48000, channels |-> 1, width |-> 16],
    [rate |-> 96000, channels |-> 1, width |-> 20],
    [rate |-> 48000, channels |-> 2, width |-> 24] }

RawStructures ==
  { [has |-> h, rate |-> f.rate, channels |-> f.channels, width |-> f.width,
     dynamic_range |-> 128, emphasis |-> FALSE, mute |-> TRUE] :
    h \in {CapsFields} \cup {CapsFields \ {x} : x \in CapsFields},
    f \in RawFormats }

\* gst_structure_get_int / _get_boolean write the field only when present
GetFields(d, s) ==
  [d EXCEPT !.rate = IF "rate" \in s.has THEN s.rate ELSE @,
            !.channels = IF "channels" \in s.has THEN s.channels ELSE @,
            !.width = IF "width" \in s.has THEN s.width ELSE @,
            !.dynamic_range = IF "dynamic_range" \in s.has THEN s.dynamic_range ELSE @,
            !.emphasis = IF "emphasis" \in s.has THEN s.emphasis ELSE @,
            !.mute = IF "mute" \in s.has THEN s.mute ELSE @]

\* "Output width is the input width rounded up to the nearest byte"
OutWidthOf(width) == IF width = 20 THEN 24 ELSE width

\* setcaps_raw going on to the source pad caps with fields missing
setcaps_raw_NoParseError(m, s, accept) ==
  LET d1 == GetFields(m.dec, s)
      d2 == [d1 EXCEPT !.out_width = OutWidthOf(d1.width)]
      c == SrcCapsOf(d2)
  IN  [m EXCEPT !.dec = d2,
                !.caps = IF accept THEN c ELSE @,
                !.ret = IF accept THEN "TRUE" ELSE "FALSE",
                !.trace = Append(@, [ev |-> "set_caps", caps |-> c, ok |-> accept])]

\* the audio/x-lpcm branch: read the six fields, fail when one is missing,
\* else derive out_width and set the caps on the source pad
setcaps_raw(m, s, accept) ==
  LET d1 == GetFields(m.dec, s)
  IN  IF s.has # CapsFields THEN [m EXCEPT !.dec = d1, !.ret = "FALSE"]
      ELSE LET d2 == [d1 EXCEPT !.out_width = OutWidthOf(d1.width)]
               c == SrcCapsOf(d2)
           IN  [m EXCEPT !.dec = d2,
                         !.caps = IF accept THEN c ELSE @,
                         !.ret = IF accept THEN "TRUE" ELSE "FALSE",
                         !.trace = Append(@, [ev |-> "set_caps", caps |-> c, ok |-> accept])]

-----------------------------------------------------------------------------------------------------------------------------------------------------
(* The element as a state machine *)

NoArg == [size |-> 0]
NoPrev == [valid |-> FALSE, header |-> 0]

Rejected(trace) == \E i \in 1..Len(trace) : trace[i].ev = "set_caps" /\ ~trace[i].ok

\* no handler has run since the streaming thread took the last result
Idle ==
  [op |-> "idle", arg |-> NoArg, ret |-> "void", trace |-> <<>>,
   pre |-> ResetDec, precaps |-> NoCaps, prev |-> NoPrev, prefailed |-> FALSE,
   preout |-> NONE, preend |-> NONE]

\* the record of a handler call: its result r, and the state it started from
Call(op, arg, r) ==
  [op |-> op, arg |-> arg, ret |-> r.ret, trace |-> r.trace,
   pre |-> dec, precaps |-> srccaps, prev |-> prevhdr, prefailed |-> negfailed,
   preout |-> emitted, preend |-> emitend]

\* the timestamp of the buffer pushed last, after a call that started with
\* `before` and logged `trace`
LastPushed(before, trace) ==
  LET ps == SelectSeq(trace, LAMBDA x : x.ev = "push")
  IN  IF ps = <<>> THEN before ELSE ps[Len(ps)].ts

\* the end (timestamp plus duration) of the buffer pushed last
LastPushedEnd(before, trace) ==
  LET ps == SelectSeq(trace, LAMBDA x : x.ev = "push")
  IN  IF ps = <<>> THEN before ELSE ps[Len(ps)].ts + ps[Len(ps)].duration

\* no function is run on its own
NoData == [kind |-> "none"]

\* gst_dvdlpcmdec_init: the pads are created and the decoder is reset
Init ==
  /\ dec = ResetDec
  /\ srccaps = NoCaps
  /\ chainfn = "none"
  /\ ub = FALSE
  /\ negfailed = FALSE
  /\ prevhdr = NoPrev
  /\ emitted = NONE
  /\ emitend = NONE
  /\ inp = NoData
  /\ out = NoData
  /\ last = Idle

\* Reset leaving the stored header word as it is
Reset_KeepHeader ==
  /\ ~ub /\ last.op = "idle"
  /\ dec' = [ResetDec EXCEPT !.header = dec.header]
  /\ srccaps' = NoCaps
  /\ negfailed' = FALSE
  /\ prevhdr' = NoPrev
  /\ emitted' = NONE
  /\ emitend' = NONE
  /\ last' = Call("reset", NoArg,
                  [ret |-> "void",
                   trace |-> <<[ev |-> "set_caps", caps |-> NoCaps, ok |-> TRUE]>>])
  /\ UNCHANGED <<chainfn, ub, inp, out>>

\* READY -> PAUSED
Reset ==
  /\ ~ub /\ last.op = "idle"
  /\ dec' = ResetDec
  /\ srccaps' = NoCaps
  /\ negfailed' = FALSE
  /\ prevhdr' = NoPrev
  /\ emitted' = NONE
  /\ emitend' = NONE
  /\ last' = Call("reset", NoArg,
                  [ret |-> "void",
                   trace |-> <<[ev |-> "set_caps", caps |-> NoCaps, ok |-> TRUE]>>])
  /\ UNCHANGED <<chainfn, ub, inp, out>>

\* caps named audio/x-private1-lpcm arrive on the sink pad
SetCapsDvd ==
  /\ ~ub /\ last.op = "idle"
  /\ chainfn' = "dvd"
  /\ prevhdr' = NoPrev
  /\ last' = Call("setcaps_dvd", NoArg, [ret |-> "TRUE", trace |-> <<>>])
  /\ UNCHANGED <<dec, srccaps, ub, negfailed, emitted, emitend, inp, out>>

\* caps named audio/x-lpcm arrive on the sink pad
SetCapsRaw ==
  /\ ~ub /\ last.op = "idle"
  /\ \E s \in RawStructures :
       \E accept \in (IF s.has = CapsFields THEN BOOLEAN ELSE {TRUE}) :
         LET r == setcaps_raw(Begin(dec, srccaps), s, accept)
         IN  /\ dec' = r.dec
             /\ srccaps' = r.caps
             /\ last' = Call("setcaps_raw", s, r)
  /\ chainfn' = "raw"
  /\ prevhdr' = NoPrev
  /\ UNCHANGED <<ub, negfailed, emitted, emitend, inp, out>>

Chunks ==
  [first_access : FirstAccess, header : Headers, size : ChunkSizes, ts : Timestamps]

Hazards == {"crash", "go"}

AllOk == [usable |-> TRUE, alloc |-> "OK", push |-> "OK"]

\* the pad answers that can make a difference to a chain_raw call made with
\* decoder d
EnvsFor(d) ==
  IF d.rate = 0 THEN {AllOk}
  ELSE IF d.width = 20 THEN Envs
  ELSE {e \in Envs : e.alloc = "OK"}

\* a buffer arrives on the sink pad in DVD mode
ChainDvd ==
  /\ ~ub /\ last.op = "idle"
  /\ chainfn = "dvd"
  /\ dec.timestamp <= MaxCursor
  /\ \E c \in Chunks :
       \E accept \in (IF c.header # dec.header THEN BOOLEAN ELSE {TRUE}) :
         LET d1 == HeaderStep(Begin(dec, srccaps), c.header, accept).dec
         IN  \E e1 \in (IF accept THEN EnvsFor(d1) ELSE {AllOk}) :
               \E e2 \in (IF accept /\ c.first_access > 4 /\ e1 = AllOk
                          THEN EnvsFor(d1) ELSE {AllOk}) :
                 \E ubc \in (IF c.first_access >= c.size \/ c.size < HeaderLen
                             THEN Hazards ELSE {"go"}) :
                   LET r == chain_dvd(Begin(dec, srccaps), c, accept, e1, e2, ubc)
                   IN  /\ dec' = r.dec
                       /\ srccaps' = r.caps
                       /\ ub' = r.ub
                       /\ negfailed' = (negfailed \/ Rejected(r.trace))
                       /\ last' = Call("chain_dvd", c, r)
                       /\ prevhdr' = [valid |-> TRUE, header |-> c.header]
                       /\ emitted' = LastPushed(emitted, r.trace)
                       /\ emitend' = LastPushedEnd(emitend, r.trace)
  /\ UNCHANGED <<chainfn, inp, out>>

\* a buffer arrives on the sink pad in raw mode
ChainRaw ==
  /\ ~ub /\ last.op = "idle"
  /\ chainfn = "raw"
  /\ dec.timestamp <= MaxCursor
  /\ \E size \in 0..(MaxSize - HeaderLen) :
       \E ts \in Timestamps :
         \E e \in EnvsFor(dec) :
           LET r == chain_raw(Begin(dec, srccaps), size, ts, e)
           IN  /\ dec' = r.dec
               /\ ub' = r.ub
               /\ emitted' = LastPushed(emitted, r.trace)
               /\ emitend' = LastPushedEnd(emitend, r.trace)
               /\ last' = Call("chain_raw", [size |-> size, ts |-> ts], r)
  /\ UNCHANGED <<srccaps, chainfn, negfailed, prevhdr, inp, out>>

\* the handler's result goes back to the streaming thread
Return ==
  /\ last.op # "idle"
  /\ last' = Idle
  /\ UNCHANGED <<dec, srccaps, chainfn, ub, negfailed, prevhdr, emitted, emitend, inp, out>>

Next == Reset \/ SetCapsDvd \/ SetCapsRaw \/ ChainDvd \/ ChainRaw \/ Return

Spec == Init /\ [][Next]_vars

\* the element fed audio/x-private1-lpcm only
NextDvd == Reset \/ SetCapsDvd \/ ChainDvd \/ Return

SpecDvd == Init /\ [][NextDvd]_vars

\* the element fed audio/x-lpcm only
NextRaw == Reset \/ SetCapsRaw \/ ChainRaw \/ Return

SpecRaw == Init /\ [][NextRaw]_vars

-----------------------------------------------------------------------------
(* parse_header run on its own *)

\* the header words parsed: every value of the bits parse_header looks at
\* (7:0, 10:8, 12, 15:14, 22, 23), with the bits it does not look at
\* (11, 13, 21:16) all clear or all set
HeaderWords ==
  { dr + 256 * ch + 4096 * r + 16384 * sel + 4194304 * mu + 8388608 * em
       + (2048 + 8192 + 4128768) * x :
    dr \in 0..255, ch \in 0..7, r \in 0..1, sel \in 0..3,
    mu \in 0..1, em \in 0..1, x \in 0..1 }

InitHeader ==
  /\ dec = ResetDec
  /\ srccaps = NoCaps
  /\ chainfn = "dvd"
  /\ ub = FALSE
  /\ negfailed = FALSE
  /\ prevhdr = NoPrev
  /\ emitted = NONE
  /\ emitend = NONE
  /\ inp \in {[kind |-> "header", word |-> w] : w \in HeaderWords}
  /\ out = NoData
  /\ last = Idle

\* parse_header (dvdlpcmdec, header)
ParseHeader ==
  /\ last.op = "idle"
  /\ inp.kind = "header"
  /\ dec' = parse_header(dec, inp.word)
  /\ last' = Call("parse_header", [size |-> 0, header |-> inp.word],
                  [ret |-> "void", trace |-> <<>>])
  /\ UNCHANGED <<srccaps, chainfn, ub, negfailed, prevhdr, emitted, emitend, inp, out>>

NextHeader == ParseHeader

SpecHeader == InitHeader /\ [][NextHeader]_vars

-----------------------------------------------------------------------------
(* the sample conversion of chain_raw run on its own *)

\* eight bytes that differ from each other, the start of every input group
GroupStart == <<17, 34, 51, 68, 85, 102, 119, 136>>

\* a buffer with its format: kind, width, channels, data
Buffer(width, channels, data) ==
  [kind |-> "bytes", width |-> width, channels |-> channels, data |-> data]

\* 20-bit buffers: one group with every value of the two shared bytes src[8]
\* and src[9], and a buffer of half a group
Inputs20 ==
  { Buffer(20, 2, GroupStart \o <<a, b>>) : a \in 0..255, b \in 0..255 }
    \cup { Buffer(20, 2, SubSeq(GroupStart, 1, 5)) }

\* 16-bit buffers: every sequence of up to MaxBytes16 bytes out of three
\* byte values, for one and two channels
Bytes16 == {0, 165, 255}
Inputs16 ==
  { Buffer(16, ch, d) :
      ch \in 1..2, d \in UNION { [1..n -> Bytes16] : n \in 0..MaxBytes16 } }

\* 24-bit groups of twelve bytes that differ from each other: byte i holds
\* i or 200 + i
Groups24In == { [i \in 1..12 |-> IF i \in S THEN 200 + i ELSE i] : S \in SUBSET (1..12) }

\* 24-bit buffers: every such group on its own, and buffers of less than a
\* group, a group and a rest, and two groups
Inputs24 ==
  { Buffer(24, 2, g) : g \in Groups24In }
    \cup { Buffer(24, 2, SubSeq(GroupStart, 1, 6)),
           Buffer(24, 2, [i \in 1..14 |-> i]),
           Buffer(24, 2, [i \in 1..24 |-> 100 + i]) }

\* 20-bit buffers of every length up to MaxBytes20: no group, complete
\* groups, and groups followed by a rest of 1..9 bytes; byte i holds i
Lengths20 == { Buffer(20, 2, [i \in 1..n |-> i]) : n \in 0..MaxBytes20 }

ConvInputs == Inputs20 \cup Lengths20 \cup Inputs16 \cup Inputs24

\* what memory handed out by gst_pad_alloc_buffer may hold in a byte
Junk == {0, 255}

InitConvert ==
  /\ dec = ResetDec
  /\ srccaps = NoCaps
  /\ chainfn = "raw"
  /\ ub = FALSE
  /\ negfailed = FALSE
  /\ prevhdr = NoPrev
  /\ emitted = NONE
  /\ emitend = NONE
  /\ inp \in ConvInputs
  /\ out = NoData
  /\ last = Idle

\* the switch on the width in chain_raw, applied to the data of the buffer:
\* the data pushed, and the sample count handed to update_timestamps
Convert ==
  /\ inp.kind = "bytes"
  /\ out.kind = "none"
  /\ \E junk \in Junk :
       out' = [kind |-> "bytes",
               data |-> ConvertData(inp.width, inp.data, junk),
               samples |-> RawSamples(inp, Len(inp.data))]
  /\ UNCHANGED <<dec, srccaps, chainfn, ub, negfailed, prevhdr, emitted, emitend, inp, last>>

NextConvert == Convert

SpecConvert == InitConvert /\ [][NextConvert]_vars

\* the inverse of the bit-layout table: the header word that carries the
\* fields of d, with the bits the table does not name left clear and the
\* 16-bit width written as selector 00
EncodeHeader(d) ==
  d.dynamic_range
    + 256 * (d.channels - 1)
    + (IF d.rate = 96000 THEN 4096 ELSE 0)
    + 16384 * (IF d.width = 24 THEN 2 ELSE IF d.width = 20 THEN 1 ELSE 0)
    + (IF d.mute THEN 4194304 ELSE 0)
    + (IF d.emphasis THEN 8388608 ELSE 0)

-----------------------------------------------------------------------------
(* Reading the log of a handler call *)

SetCapsCalls(trace) == SelectSeq(trace, LAMBDA x : x.ev = "set_caps")
Subs(trace) == SelectSeq(trace, LAMBDA x : x.ev = "sub")
Pushes(trace) == SelectSeq(trace, LAMBDA x : x.ev = "push")
RawRets(trace) == SelectSeq(trace, LAMBDA x : x.ev = "raw_ret")

\* a sub-buffer of the chunk as chain_dvd hands it to chain_raw
SubRange(off, len, ts) ==
  [ev |-> "sub", off |-> off, len |-> len, ts |-> ts, inside |-> TRUE]

\* a chain_dvd call on a chunk that holds its 5-byte header
DvdCall == last.op = "chain_dvd" /\ last.arg.size >= HeaderLen

\* the call stayed inside its buffer: every sub-buffer lies in the chunk
InBounds == ~ub /\ \A i \in 1..Len(last.trace) :
                     last.trace[i].ev = "sub" => last.trace[i].inside


-----------------------------------------------------------------------------
(* Claims *)

\* C1: in DVD mode a chunk whose header word equals the header word of the
\* chunk before it makes no set-caps call on the source pad, and a chunk
\* whose header word differs makes exactly one, before any sub-range of
\* the chunk reaches chain_raw.
C1_HeaderChangeDetection ==
  (DvdCall /\ InBounds /\ last.prev.valid) =>
     IF last.arg.header = last.prev.header
     THEN SetCapsCalls(last.trace) = <<>>
     ELSE /\ Len(SetCapsCalls(last.trace)) = 1
          /\ last.trace[1].ev = "set_caps"

\* C2: every chunk pushed downstream was converted with the rate, channels
\* and output width of the caps the source pad holds, which are the caps
\* last proposed to and accepted by downstream.
C2_EmittedUnderAcceptedFormat ==
  \A i \in 1..Len(last.trace) :
     (InBounds /\ last.trace[i].ev = "push") =>
        /\ last.trace[i].caps # NoCaps
        /\ last.trace[i].fmt = last.trace[i].caps

\* C3: in DVD mode the first chunk after construction or reset configures
\* the decoder from its header, whatever the header word: unless downstream
\* rejects the caps, the decoder has a rate afterwards and the chunk is not
\* answered with NOT_NEGOTIATED.
C3_FirstChunkConfigures ==
  (DvdCall /\ InBounds /\ last.pre = ResetDec /\ ~Rejected(last.trace)) =>
     /\ dec.rate # 0
     /\ last.ret # "NOT_NEGOTIATED"

\* C4: in DVD mode, when the chunk's header differs from the stored one and
\* downstream rejects the proposed caps, the call returns an error and no
\* sub-range of the chunk is handed to chain_raw or pushed.
C4_RejectedChunkEmitsNothing ==
  (last.op = "chain_dvd" /\ last.arg.header # last.pre.header
     /\ Rejected(last.trace)) =>
     /\ last.ret = "ERROR"
     /\ Subs(last.trace) = <<>>
     /\ Pushes(last.trace) = <<>>

\* C4 happens: a chunk with payload had its new header rejected
C4_Witness ==
  /\ last.op = "chain_dvd"
  /\ last.arg.size > HeaderLen
  /\ last.arg.header # last.pre.header
  /\ Rejected(last.trace)
  /\ last.ret = "ERROR"

\* C5: once a renegotiation has failed, no chunk fed before the next reset
\* gets anything pushed downstream.
C5_FailedIsTerminal ==
  (DvdCall /\ InBounds /\ last.prefailed) => Pushes(last.trace) = <<>>

\* the two sub-ranges of a chunk split at first_access
FirstRange(c) == SubRange(HeaderLen, c.first_access - 4, NONE)
SecondRange(c) == SubRange(c.first_access + 1, c.size - (c.first_access + 1), c.ts)

\* a chunk that reaches the split with first_access > 4 pointing inside it
SplitCall ==
  /\ DvdCall
  /\ ~Rejected(last.trace)
  /\ last.arg.first_access > 4
  /\ last.arg.first_access + 1 <= last.arg.size

\* C6 as stated: for first_access > 4 the chunk is forwarded as the range of
\* first_access - 4 bytes at offset 5 without timestamp, then the range of
\* the remaining bytes with the chunk's timestamp (stated here for a decoder
\* that has a format, where chain_raw can do its work).
C6_TwoSubRanges ==
  (SplitCall /\ dec.rate # 0) => Subs(last.trace) = <<FirstRange(last.arg), SecondRange(last.arg)>>

\* C6 amended: the first range is always forwarded; the second one follows
\* exactly when chain_raw returned OK for the first, and otherwise the call
\* ends with the first range's error.
C6_TwoSubRangesWhenFirstOk ==
  SplitCall =>
     /\ Len(RawRets(last.trace)) >= 1
     /\ IF RawRets(last.trace)[1].ret = "OK"
        THEN Subs(last.trace) = <<FirstRange(last.arg), SecondRange(last.arg)>>
        ELSE /\ Subs(last.trace) = <<FirstRange(last.arg)>>
             /\ last.ret = RawRets(last.trace)[1].ret

\* C6 happens: a timestamped chunk was split in two non-empty ranges and
\* both were pushed
C6_Witness ==
  /\ SplitCall
  /\ last.arg.ts # NONE
  /\ last.arg.first_access + 1 < last.arg.size
  /\ Len(Pushes(last.trace)) = 2
  /\ Pushes(last.trace)[1].ints = NONE
  /\ Pushes(last.trace)[2].ints = last.arg.ts

\* C7: for first_access in 1..3 the call does what it does for
\* first_access = 0 on the same chunk from the same state, whatever the pads
\* answer: one range covering the bytes from 5 to the end is forwarded
\* without timestamp (none when the caps were rejected), with the same
\* result, log, decoder and caps.
C7_SmallOffsetsLikeZero ==
  (DvdCall /\ last.arg.first_access \in 0..3) =>
     /\ Subs(last.trace) =
          IF Rejected(last.trace) THEN <<>>
          ELSE <<SubRange(HeaderLen, last.arg.size - HeaderLen, NONE)>>
     /\ \A accept \in BOOLEAN, e1 \in Envs, e2 \in Envs, ubc \in Hazards :
          chain_dvd(Begin(last.pre, last.precaps), last.arg, accept, e1, e2, ubc)
            = chain_dvd(Begin(last.pre, last.precaps),
                        [last.arg EXCEPT !.first_access = 0], accept, e1, e2, ubc)

\* C7 happens: a timestamped chunk with first_access in 1..3 was pushed as
\* one buffer that lost the timestamp
C7_Witness ==
  /\ DvdCall
  /\ last.arg.first_access \in 1..3
  /\ last.arg.ts # NONE
  /\ last.arg.size > HeaderLen
  /\ Len(Pushes(last.trace)) = 1
  /\ Pushes(last.trace)[1].ints = NONE

\* C8: for first_access = 4 no range of the previous unit is forwarded, and
\* the one range covering the bytes from 5 to the end carries the chunk's
\* timestamp.
C8_OffsetFourKeepsTimestamp ==
  (DvdCall /\ ~Rejected(last.trace) /\ last.arg.first_access = 4) =>
     Subs(last.trace) = <<SubRange(HeaderLen, last.arg.size - HeaderLen, last.arg.ts)>>

\* sample frames held by a pushed buffer: its bytes over the bytes of one
\* frame of its format
FramesIn(p) == p.size \div (p.fmt.channels * (p.fmt.width \div 8))

\* C9: a buffer of N sample frames pushed without a timestamp of its own
\* moves the cursor by N * GST_SECOND / rate.
C9_CursorAdvance ==
  \A i \in 1..Len(last.trace) :
     (InBounds /\ last.trace[i].ev = "push" /\ last.trace[i].ints = NONE) =>
        last.trace[i].after =
          last.trace[i].before
            + BufferDuration(FramesIn(last.trace[i]), last.trace[i].fmt.rate)

\* C10: on the 20-bit path the duration of the pushed buffer, and the
\* advance of the cursor when the buffer has no timestamp of its own, come
\* from samples = (bytes * 8 / 20) / channels.
C10_TwentyBitSamples ==
  \A i \in 1..Len(last.trace) :
     (InBounds /\ last.trace[i].ev = "push" /\ last.trace[i].width = 20) =>
        LET p == last.trace[i]
            samples == ((p.insize * 8) \div 20) \div p.fmt.channels
        IN  /\ p.duration = BufferDuration(samples, p.fmt.rate)
            /\ p.ints = NONE => p.after = p.before + p.duration

\* the timestamp of the buffer pushed before the i-th push of the call
PushedBefore(i) ==
  IF i = 1 THEN last.preout ELSE Pushes(last.trace)[i - 1].ts

\* C11 as stated: between two resets, no buffer is pushed with a timestamp
\* earlier than the timestamp of the buffer pushed before it.
C11_MonotonicTimestamps ==
  \A i \in 1..Len(Pushes(last.trace)) :
     (InBounds /\ PushedBefore(i) # NONE) =>
        Pushes(last.trace)[i].ts >= PushedBefore(i)

\* C11 amended: a buffer whose input carries a timestamp is pushed with
\* exactly that timestamp; a buffer whose input carries none is pushed with
\* a timestamp not earlier than that of the buffer pushed before it since
\* the reset.
C11_MonotonicWithoutInputTimestamp ==
  \A i \in 1..Len(Pushes(last.trace)) :
     LET p == Pushes(last.trace)[i]
     IN  IF p.ints # NONE THEN p.ts = p.ints
         ELSE PushedBefore(i) # NONE => p.ts >= PushedBefore(i)

\* C11 happens: after an earlier push, a buffer without input timestamp
\* was pushed with a later timestamp
C11_Witness ==
  \E i \in 1..Len(Pushes(last.trace)) :
     /\ PushedBefore(i) # NONE
     /\ Pushes(last.trace)[i].ints = NONE
     /\ Pushes(last.trace)[i].ts > PushedBefore(i)

\* the GstFlowReturn values that report a failure
FlowErrors == {"ERROR", "NOT_LINKED", "NOT_NEGOTIATED"}

\* the pushes of the call that downstream took
OkPushes == SelectSeq(last.trace, LAMBDA x : x.ev = "push" /\ x.ret = "OK")

\* C12 as stated: a chunk whose handler returns an error has had nothing
\* pushed downstream, also when it was split and the second sub-range
\* failed.
C12_NoPartialEmission ==
  (DvdCall /\ InBounds /\ last.ret \in FlowErrors) => OkPushes = <<>>

\* C12 amended: an error ends the chunk at the sub-range it arises on;
\* what downstream took are exactly the buffers of the sub-ranges before
\* that one, so a split chunk failing on its second sub-range has had its
\* first sub-range pushed.
C12_ErrorEndsAtFailingSubRange ==
  (DvdCall /\ last.ret \in FlowErrors) =>
     LET rr == RawRets(last.trace)
     IN  /\ Len(OkPushes) = (IF rr = <<>> THEN 0 ELSE Len(rr) - 1)
         /\ rr # <<>> => /\ rr[Len(rr)].ret = last.ret
                          /\ \A i \in 1..(Len(rr) - 1) : rr[i].ret = "OK"
                          /\ Len(Subs(last.trace)) = Len(rr)

\* C12 happens: a split chunk had its first sub-range pushed and failed on
\* the second
C12_Witness ==
  /\ DvdCall /\ InBounds
  /\ last.ret \in FlowErrors
  /\ Len(Subs(last.trace)) = 2
  /\ Len(OkPushes) = 1

\* the messages posted on the bus during the call
Errors(trace) == SelectSeq(trace, LAMBDA x : x.ev = "error")

\* a chain_raw call arriving in raw mode
RawCall == last.op = "chain_raw"

\* the source pad was usable whenever the call asked
PadUsable ==
  \A i \in 1..Len(last.trace) : last.trace[i].ev = "is_usable" => last.trace[i].ok

\* C13: in raw mode a chunk that arrives before any format configuration
\* has succeeded since construction or the last reset (the source pad holds
\* no caps) is answered with NOT_NEGOTIATED and nothing is pushed.
C13_UnconfiguredRawChunkRejected ==
  (RawCall /\ ~ub /\ PadUsable /\ last.precaps = NoCaps) =>
     /\ last.ret = "NOT_NEGOTIATED"
     /\ Pushes(last.trace) = <<>>

\* C14: in a configured session a buffer whose length is not a whole number
\* of sample frames of the input width and channel count is not pushed.
C14_PartialFrameRejected ==
  \A i \in 1..Len(Pushes(last.trace)) :
     LET p == Pushes(last.trace)[i]
     IN  (RawCall /\ ~ub /\ last.precaps # NoCaps) =>
            (p.insize * 8) % (p.fmt.channels * p.width) = 0

\* a chunk handled with a rate but a width that is none of 16, 20, 24
BadWidthCall ==
  RawCall /\ last.pre.rate # 0 /\ last.pre.width \notin {16, 20, 24}

\* C15 as stated: with a rate and a width outside {16, 20, 24} every chunk
\* fails as "invalid sample width" and nothing is pushed.
C15_BadWidthUnsupported ==
  BadWidthCall =>
     /\ last.ret = "NOT_NEGOTIATED"
     /\ Errors(last.trace) = <<ElementError("STREAM", "WRONG_TYPE")>>
     /\ Pushes(last.trace) = <<>>

\* C15 amended: nothing is pushed; the chunk fails as "invalid sample
\* width" when the source pad is usable, and is discarded with NOT_LINKED,
\* without an error message, when it is not.
C15_BadWidthUnsupportedWhenUsable ==
  BadWidthCall =>
     /\ Pushes(last.trace) = <<>>
     /\ last.trace[1].ev = "is_usable"
     /\ IF last.trace[1].ok
        THEN /\ last.ret = "NOT_NEGOTIATED"
             /\ Errors(last.trace) = <<ElementError("STREAM", "WRONG_TYPE")>>
        ELSE /\ last.ret = "NOT_LINKED"
             /\ Errors(last.trace) = <<>>

\* C15 happens: a chunk with payload met a usable pad and an invalid width
C15_Witness ==
  /\ BadWidthCall
  /\ last.arg.size > 0
  /\ last.trace[1].ok
  /\ last.ret = "NOT_NEGOTIATED"

\* C16: in raw mode a structure that lacks one of rate, channels, width,
\* dynamic_range, emphasis, mute makes setcaps fail: it returns FALSE, no
\* caps are proposed on the source pad, the source pad caps stay what they
\* were, and nothing is pushed.
C16_MissingFieldFails ==
  (last.op = "setcaps_raw" /\ last.arg.has # CapsFields) =>
     /\ last.ret = "FALSE"
     /\ SetCapsCalls(last.trace) = <<>>
     /\ Pushes(last.trace) = <<>>
     /\ srccaps = last.precaps

\* C16 happens: setcaps failed on a structure with one field missing
C16_Witness ==
  /\ last.op = "setcaps_raw"
  /\ Cardinality(last.arg.has) = Cardinality(CapsFields) - 1
  /\ last.ret = "FALSE"

\* C17: whenever the decoder has a rate, its out_width is 16 or 24 and is
\* the one derived from its width: 16 -> 16, 20 -> 24, 24 -> 24.
C17_OutWidthDerived ==
  dec.rate # 0 =>
     /\ dec.out_width \in {16, 24}
     /\ dec.out_width = (IF dec.width = 16 THEN 16
                         ELSE IF dec.width \in {20, 24} THEN 24 ELSE 0)

\* bits [lo + n - 1 : lo] of the word h
Bits(h, lo, n) == (h \div (2 ^ lo)) % (2 ^ n)

\* C18: parse_header yields the fields of the bit-layout table for every
\* header word: dynamic_range = bits 7:0, mute = bit 22, emphasis = bit 23,
\* width 24 for bits 15:14 = 10, 20 for 01, else 16, rate 96000 when
\* bit 12 is set, else 48000, channels = bits 10:8 plus one; so the rate is
\* 48000 or 96000, the channels are in 1..8 and the width is 16, 20 or 24.
C18_ParseHeaderTable ==
  last.op = "parse_header" =>
     LET h == last.arg.header
     IN  /\ dec.dynamic_range = Bits(h, 0, 8)
         /\ dec.mute = (Bits(h, 22, 1) = 1)
         /\ dec.emphasis = (Bits(h, 23, 1) = 1)
         /\ dec.width = CASE Bits(h, 14, 2) = 2 -> 24
                          [] Bits(h, 14, 2) = 1 -> 20
                          [] OTHER -> 16
         /\ dec.rate = (IF Bits(h, 12, 1) = 1 THEN 96000 ELSE 48000)
         /\ dec.channels = Bits(h, 8, 3) + 1
         /\ dec.rate \in {48000, 96000}
         /\ dec.channels \in 1..8
         /\ dec.width \in {16, 20, 24}

\* C18 happens: a word with both selector bits, all three channel bits and
\* the unused bits set was parsed to 16 bit and 8 channels
C18_Witness ==
  /\ last.op = "parse_header"
  /\ Bits(last.arg.header, 14, 2) = 3
  /\ Bits(last.arg.header, 16, 6) = 63
  /\ dec.width = 16
  /\ dec.channels = 8
  /\ dec.rate = 96000

\* the bits of h that parse_header decodes: 7:0, 10:8, 12, 15:14, 22, 23
DecodeRelevant(h) ==
  Bits(h, 0, 8) + 256 * Bits(h, 8, 3) + 4096 * Bits(h, 12, 1)
    + 16384 * Bits(h, 14, 2) + 4194304 * Bits(h, 22, 2)

\* C19 as stated: for every header word, encoding the fields parse_header
\* produced gives back the decode-relevant bits of the word.
C19_RoundTrip ==
  last.op = "parse_header" => EncodeHeader(dec) = DecodeRelevant(last.arg.header)

\* C19 amended: the round trip gives back the decode-relevant bits of every
\* word whose selector bits 15:14 are not both set; a word with selector 11
\* is parsed as 16 bit like selector 00, so it comes back with all other
\* decode-relevant bits intact and the selector bits clear.
C19_RoundTripUpToSelector ==
  last.op = "parse_header" =>
     LET h == last.arg.header
     IN  IF Bits(h, 14, 2) # 3
         THEN EncodeHeader(dec) = DecodeRelevant(h)
         ELSE EncodeHeader(dec) = DecodeRelevant(h) - 3 * 16384

\* C19 happens: a 24-bit, 96 kHz, 8-channel word with mute, emphasis and
\* the unused bits set made the round trip
C19_Witness ==
  /\ last.op = "parse_header"
  /\ Bits(last.arg.header, 14, 2) = 2
  /\ Bits(last.arg.header, 12, 1) = 1
  /\ Bits(last.arg.header, 8, 3) = 7
  /\ Bits(last.arg.header, 22, 2) = 3
  /\ Bits(last.arg.header, 16, 6) = 63
  /\ last.arg.header # DecodeRelevant(last.arg.header)
  /\ EncodeHeader(dec) = DecodeRelevant(last.arg.header)

\* the 10-byte group 11 22 33 44 55 66 77 88 A5 5A was converted as 20 bit
C20_Case ==
  /\ out.kind = "bytes"
  /\ inp.width = 20
  /\ inp.data = <<17, 34, 51, 68, 85, 102, 119, 136, 165, 90>>

\* the bytes the 20-bit mapping copies: dest 0, 1, 3, 4, 6, 7, 9, 10 from
\* src 0..7
C20_Copied ==
  /\ Len(out.data) = 12
  /\ out.data[1] = 17 /\ out.data[2] = 34
  /\ out.data[4] = 51 /\ out.data[5] = 68
  /\ out.data[7] = 85 /\ out.data[8] = 102
  /\ out.data[10] = 119 /\ out.data[11] = 136

Group20Case == out.kind = "bytes" /\ inp.width = 20 /\ Len(inp.data) = 10

\* C21: in the 12 bytes made from a 10-byte group, bytes 2, 5, 8 and 11
\* have a zero low nibble and carry the four extra bits of their sample in
\* the high nibble: the high and low nibble of src[8] for the first two
\* samples, the high and low nibble of src[9] for the last two.
C21_ZeroLowNibble ==
  Group20Case =>
     /\ \A i \in {3, 6, 9, 12} : out.data[i] % 16 = 0
     /\ out.data[3] \div 16 = inp.data[9] \div 16
     /\ out.data[6] \div 16 = inp.data[9] % 16
     /\ out.data[9] \div 16 = inp.data[10] \div 16
     /\ out.data[12] \div 16 = inp.data[10] % 16

\* C22: on the 16-bit path the data pushed are the data received, byte for
\* byte and as many, and the sample count is size / channels / 2.
C22_SixteenBitIdentity ==
  (out.kind = "bytes" /\ inp.width = 16) =>
     /\ Len(out.data) = Len(inp.data)
     /\ \A i \in 1..Len(inp.data) : out.data[i] = inp.data[i]
     /\ out.samples = (Len(inp.data) \div inp.channels) \div 2

\* C22 happens: four bytes that are not all equal went through for two
\* channels as one sample frame
C22_Witness ==
  /\ out.kind = "bytes" /\ inp.width = 16
  /\ inp.channels = 2
  /\ Len(inp.data) = 4
  /\ inp.data[1] # inp.data[2]
  /\ out.data = inp.data
  /\ out.samples = 1

\* where byte i (from 0) of a converted 24-bit group comes from
From24 == <<0, 1, 8, 2, 3, 9, 4, 5, 10, 6, 7, 11>>

\* C23: every complete 12-byte group of a 24-bit buffer comes out as the
\* mapping applied to the bytes the group held before the call (bytes 2..10
\* from old 8, 2, 3, 9, 4, 5, 10, 6, 7; bytes 0, 1, 11 as they were), which
\* is a rearrangement of those bytes; the bytes after the last complete
\* group stay.
C23_InPlaceIsMapping ==
  (out.kind = "bytes" /\ inp.width = 24) =>
     /\ Len(out.data) = Len(inp.data)
     /\ { From24[i] : i \in 1..12 } = 0..11
     /\ \A k \in 0..((Len(inp.data) \div 12) - 1) :
          \A i \in 0..11 : out.data[12 * k + i + 1] = inp.data[12 * k + From24[i + 1] + 1]
     /\ \A j \in (12 * (Len(inp.data) \div 12) + 1)..Len(inp.data) :
          out.data[j] = inp.data[j]

\* C23 happens: a buffer of two groups was rearranged
C23_Witness ==
  /\ out.kind = "bytes" /\ inp.width = 24
  /\ Len(inp.data) = 24
  /\ out.data # inp.data
  /\ out.data[15] = inp.data[21]

\* a 24-bit buffer of one group whose bytes 2..10 differ from each other
\* was converted
Group24Case ==
  /\ out.kind = "bytes" /\ inp.width = 24 /\ Len(inp.data) = 12
  /\ \A i \in 3..11 : \A j \in 3..11 : i # j => inp.data[i] # inp.data[j]

\* C24: converting the converted group once more does not give back the
\* group.
C24_NotSelfInverse ==
  Group24Case => Convert24(out.data) # inp.data

\* C24 happens: the group changed, and changed again to something else than
\* the original
C24_Witness ==
  /\ Group24Case
  /\ out.data # inp.data
  /\ Convert24(out.data) # out.data
  /\ Convert24(out.data) # inp.data

\* C25: after a reset, whatever came before, rate, channels, width,
\* out_width and dynamic_range are 0, emphasis and mute are FALSE, the
\* stored header and the timestamp cursor are 0, and the source pad holds
\* no caps: the state is the one the element is created with.
C25_ResetClears ==
  last.op = "reset" =>
     /\ dec = [rate |-> 0, channels |-> 0, width |-> 0, out_width |-> 0,
               dynamic_range |-> 0, emphasis |-> FALSE, mute |-> FALSE,
               timestamp |-> 0, header |-> 0]
     /\ srccaps = [rate |-> 0, channels |-> 0, width |-> 0]

\* C25 happens: the reset came with a format, a stored header, the mute
\* flag, caps on the source pad and a moved cursor
C25_Witness ==
  /\ last.op = "reset"
  /\ last.pre.rate # 0
  /\ last.pre.header # 0
  /\ last.pre.mute
  /\ last.pre.timestamp > 0
  /\ last.precaps # NoCaps

\* the answers gst_pad_alloc_buffer gave during the call
Allocs(trace) == SelectSeq(trace, LAMBDA x : x.ev = "alloc")

\* a chain_raw call that went to not_negotiated, disabled,
\* buffer_alloc_failed or invalid_width
ConverterError ==
  /\ RawCall
  /\ \/ Errors(last.trace) # <<>>
     \/ ~PadUsable
     \/ \E i \in 1..Len(Allocs(last.trace)) : Allocs(last.trace)[i].ret # "OK"

\* C26: a chain_raw call that ends in one of these errors returns a
\* non-OK result, pushes nothing and leaves the decoder, cursor included,
\* as it was; a failed allocation on the 20-bit path is returned as the
\* call's result.
C26_ErrorLeavesStateAlone ==
  ConverterError =>
     /\ last.ret \in FlowErrors
     /\ Pushes(last.trace) = <<>>
     /\ dec = last.pre
     /\ emitted = last.preout
     /\ \A i \in 1..Len(Allocs(last.trace)) :
          Allocs(last.trace)[i].ret # "OK" => last.ret = Allocs(last.trace)[i].ret

\* C26 happens: with the cursor moved, a 20-bit buffer could not get its
\* output buffer
C26_Witness ==
  /\ RawCall
  /\ last.arg.size > 0
  /\ last.pre.timestamp > 0
  /\ Len(Allocs(last.trace)) = 1
  /\ Allocs(last.trace)[1].ret # "OK"
  /\ last.ret # "OK"

\* C27: in DVD mode, when a sub-range of a chunk has been handed to
\* chain_raw with a format, the stored header is the header word of the
\* chunk and the format fields are parse_header of the stored header.
C27_FieldsMatchHeader ==
  (DvdCall /\ InBounds /\ Subs(last.trace) # <<>> /\ dec.rate # 0) =>
     /\ dec.header = last.arg.header
     /\ parse_header(dec, dec.header) = dec

\* C28: in DVD mode every sub-range handed to chain_raw lies in the chunk:
\* it starts at byte 5 or later, its length is not negative and it ends at
\* the end of the chunk at the latest, whatever first_access is (stated
\* for the chunks that hold their 5-byte header).
C28_SubRangesInsideChunk ==
  DvdCall =>
     /\ ~ub
     /\ \A i \in 1..Len(Subs(last.trace)) :
          LET r == Subs(last.trace)[i]
          IN  /\ r.off >= HeaderLen
              /\ r.len >= 0
              /\ r.off + r.len <= last.arg.size

\* the end of the buffer pushed before the i-th push of the call
EndBefore(i) ==
  IF i = 1 THEN last.preend
  ELSE Pushes(last.trace)[i - 1].ts + Pushes(last.trace)[i - 1].duration

\* C29: a buffer pushed without an input timestamp is stamped with the
\* timestamp plus the duration of the buffer pushed before it.
C29_ContiguousTimestamps ==
  \A i \in 1..Len(Pushes(last.trace)) :
     (InBounds /\ Pushes(last.trace)[i].ints = NONE /\ EndBefore(i) # NONE) =>
        Pushes(last.trace)[i].ts = EndBefore(i)

\* C30: a raw-mode setcaps that returns FALSE, for a missing field or for
\* caps the source pad did not take, leaves the decoder as it was.
C30_FailedSetcapsLeavesFormat ==
  (last.op = "setcaps_raw" /\ last.ret = "FALSE") => dec = last.pre

\* C31: on the 20-bit path, for every input length, the bytes the loop
\* writes, 12 for every complete 10-byte group, fit in the buffer that was
\* allocated, and the pushed buffer holds these bytes and nothing else.
C31_OutputIsWrittenBytes ==
  (out.kind = "bytes" /\ inp.width = 20) =>
     LET written == Groups20(inp.data, Len(inp.data) \div 10)
     IN  /\ Len(written) = 12 * (Len(inp.data) \div 10)
         /\ Len(written) <= Len(out.data)
         /\ out.data = written

====
